---- MODULE Spec2Model ----
(***************************************************************************)
(* Model of streaming_form_data/targets.py: the BaseTarget lifecycle       *)
(* (start / data_received / finish with an optional validator) and the     *)
(* concrete targets NullTarget, ValueTarget, FileTarget, DirectoryTarget,  *)
(* SHA256Target, S3Target and CSVTarget.                                   *)
(*                                                                         *)
(* One target instance is driven by an external driver.  A byte is an      *)
(* integer 0..255, a chunk a sequence of bytes, a text a sequence of code  *)
(* points, a path-like string a sequence of one-character strings, a path  *)
(* a sequence of components.                                               *)
(***************************************************************************)
EXTENDS Integers, Sequences, FiniteSets, TLC

\* ------------------------------------------------------------------------
\* Bounds of the model
\* ------------------------------------------------------------------------
\* calls the driver makes on one target instance
MaxCalls == 4
\* total number of bytes the driver hands to one target instance
MaxBytes == 3
\* total number of path components in the file names the driver advertises
\* to one target instance
MaxComponents == 2

\* ------------------------------------------------------------------------
\* Generic helpers
\* ------------------------------------------------------------------------
SeqsUpTo(S, n) == UNION {[1..k -> S] : k \in 0..n}

RECURSIVE Flatten(_)
\* b"".join(list) / "".join(list)
Flatten(ss) == IF ss = <<>> THEN <<>> ELSE Head(ss) \o Flatten(Tail(ss))

Last(s) == s[Len(s)]
Front(s) == SubSeq(s, 1, Len(s) - 1)

\* ------------------------------------------------------------------------
\* Bytes and text
\* ------------------------------------------------------------------------
LF == 10
\* the bytes the driver draws chunks from: LF, CR, "a", and the two bytes
\* 0xC3 0xA9 of the UTF-8 encoding of U+00E9
Bytes == {LF, 13, 97, 195, 169}

Chunks(n) == SeqsUpTo(Bytes, n)

IsCont(b) == b >= 128 /\ b <= 191

\* Length of the well-formed UTF-8 sequence that starts at bs[i], 0 if the
\* bytes at i do not start one (Unicode table 3-7, which the strict utf-8
\* codec of bytes.decode follows).
Utf8Len(bs, i) ==
    LET b1 == bs[i]
        n == Len(bs)
        b2 == IF i + 1 <= n THEN bs[i + 1] ELSE 0
        b3 == IF i + 2 <= n THEN bs[i + 2] ELSE 0
        b4 == IF i + 3 <= n THEN bs[i + 3] ELSE 0
    IN  IF b1 <= 127 THEN 1
        ELSE IF b1 >= 194 /\ b1 <= 223
            THEN IF IsCont(b2) THEN 2 ELSE 0
        ELSE IF b1 >= 224 /\ b1 <= 239
            THEN IF /\ IsCont(b2) /\ IsCont(b3)
                    /\ (b1 = 224 => b2 >= 160)
                    /\ (b1 = 237 => b2 <= 159)
                 THEN 3 ELSE 0
        ELSE IF b1 >= 240 /\ b1 <= 244
            THEN IF /\ IsCont(b2) /\ IsCont(b3) /\ IsCont(b4)
                    /\ (b1 = 240 => b2 >= 144)
                    /\ (b1 = 244 => b2 <= 143)
                 THEN 4 ELSE 0
        ELSE 0

\* The code point of the well-formed sequence of length k at bs[i].
Utf8CodePoint(bs, i, k) ==
    CASE k = 1 -> bs[i]
      [] k = 2 -> (bs[i] - 192) * 64 + (bs[i + 1] - 128)
      [] k = 3 -> (bs[i] - 224) * 4096 + (bs[i + 1] - 128) * 64 + (bs[i + 2] - 128)
      [] k = 4 -> (bs[i] - 240) * 262144 + (bs[i + 1] - 128) * 4096
                    + (bs[i + 2] - 128) * 64 + (bs[i + 3] - 128)

RECURSIVE DecodeFrom(_, _)
DecodeFrom(bs, i) ==
    IF i > Len(bs) THEN [ok |-> TRUE, text |-> <<>>]
    ELSE LET k == Utf8Len(bs, i)
         IN  IF k = 0 THEN [ok |-> FALSE, text |-> <<>>]
             ELSE LET rest == DecodeFrom(bs, i + k)
                  IN  [ok |-> rest.ok,
                       text |-> IF rest.ok
                                THEN <<Utf8CodePoint(bs, i, k)>> \o rest.text
                                ELSE <<>>]

\* chunk.decode("utf-8"): ok = FALSE stands for UnicodeDecodeError
decode(chunk) == DecodeFrom(chunk, 1)

\* The characters str.splitlines treats as line boundaries:
\* \n \r \v \f \x1c \x1d \x1e \x85     (and \r\n as one boundary)
IsLineBreak(c) == c \in {10, 11, 12, 13, 28, 29, 30, 133, 8232, 8233}

\* Index of the last character of the first line of s[i..], terminator
\* included; Len(s) when no line boundary follows.
RECURSIVE LineEnd(_, _)
LineEnd(s, i) ==
    IF i > Len(s) THEN Len(s)
    ELSE IF IsLineBreak(s[i])
        THEN IF s[i] = 13 /\ i + 1 <= Len(s) /\ s[i + 1] = LF THEN i + 1 ELSE i
        ELSE LineEnd(s, i + 1)

RECURSIVE SplitFrom(_, _)
SplitFrom(s, i) ==
    IF i > Len(s) THEN <<>>
    ELSE LET e == LineEnd(s, i)
         IN  <<SubSeq(s, i, e)>> \o SplitFrom(s, e + 1)

\* str.splitlines(keepends=True)
splitlines(s) == SplitFrom(s, 1)

\* line.replace("\n", "")
replaceLF(line) == SelectSeq(line, LAMBDA c : c # LF)

\* line.endswith("\n")
endswithLF(line) == line # <<>> /\ Last(line) = LF

\* ------------------------------------------------------------------------
\* Path-like strings, pathlib and the file system
\* ------------------------------------------------------------------------
\* None, as the value of a field that otherwise holds a string
None == <<"None">>

\* the path components the driver builds advertised names from: the
\* ordinary name "f", and "." and ".."
Components == {<<"f">>, <<".">>, <<".", ".">>}

RECURSIVE JoinSep(_)
JoinSep(comps) ==
    IF comps = <<>> THEN <<>>
    ELSE IF Len(comps) = 1 THEN Head(comps)
    ELSE Head(comps) \o <<"/">> \o JoinSep(Tail(comps))

\* the advertised names of at most n components, "/"-separated, with or
\* without a leading and a trailing separator
Names(n) ==
    {(IF lead THEN <<"/">> ELSE <<>>) \o JoinSep(comps)
        \o (IF trail THEN <<"/">> ELSE <<>>) :
            lead \in BOOLEAN, trail \in BOOLEAN, comps \in SeqsUpTo(Components, n)}

\* the content types the driver advertises
ContentTypes == {"None", "text/csv"}

RECURSIVE Pieces(_, _, _)
Pieces(str, i, piece) ==
    IF i > Len(str) THEN <<piece>>
    ELSE IF str[i] = "/" THEN <<piece>> \o Pieces(str, i + 1, <<>>)
    ELSE Pieces(str, i + 1, Append(piece, str[i]))

\* str.split("/"): the "/"-separated pieces, empty ones included
SplitSep(str) == Pieces(str, 1, <<>>)

\* pathlib.Path(str): a leading "/" makes the path absolute; empty and "."
\* components are dropped, ".." components are kept
Path(str) ==
    [abs |-> str # <<>> /\ str[1] = "/",
     parts |-> SelectSeq(SplitSep(str), LAMBDA c : c # <<>> /\ c # <<".">>)]

\* number of path components of an advertised name
NameSize(str) ==
    IF str = None THEN 0
    ELSE Len(SelectSeq(SplitSep(str), LAMBDA c : c # <<>>))

\* the working directory of the process, "/w"
Cwd == << <<"w">> >>

\* ".." components applied to what precedes them; the parent of "/" is "/"
RECURSIVE Normalize(_, _)
Normalize(done, todo) ==
    IF todo = <<>> THEN done
    ELSE IF Head(todo) = <<".", ".">>
        THEN Normalize(IF done = <<>> THEN <<>> ELSE Front(done), Tail(todo))
        ELSE Normalize(Append(done, Head(todo)), Tail(todo))

\* Path.resolve() on a file system without symbolic links
resolve(p) ==
    [abs |-> TRUE,
     parts |-> Normalize(<<>>, IF p.abs THEN p.parts ELSE Cwd \o p.parts)]

\* Path.name: the final component, "" for the root
name(p) == IF p.parts = <<>> THEN <<>> ELSE Last(p.parts)

\* Path.__truediv__: an absolute right operand replaces the left one
truediv(p, str) ==
    LET q == Path(str)
    IN  IF q.abs THEN q ELSE [abs |-> p.abs, parts |-> p.parts \o q.parts]

\* FileTarget.filename, "/u/f"
filename == Path(<<"/", "u", "/", "f">>)
\* DirectoryTarget.directory_path, "/u"
directory_path == <<"/", "u">>
\* S3Target._file_path
_file_path == <<"s3://b/k">>

\* the directories of the file system: "/", "/u" and "/w"
Dirs == {<<>>, Path(directory_path).parts, Cwd}

\* the absolute location open() is given
Location(p) == Normalize(<<>>, IF p.abs THEN p.parts ELSE Cwd \o p.parts)

NoFd == [state |-> "None", path |-> <<>>, buf |-> <<>>]

\* open(p, mode), mode "wb" or "xb": the fault raised ("None" if none), the
\* file object returned and the file system afterwards.  "wb" creates or
\* truncates, "xb" creates and fails on an existing file.
open(p, mode, fs) ==
    LET loc == Location(p)
        fault == IF loc \in Dirs THEN "IsADirectoryError"
                 ELSE IF Front(loc) \in DOMAIN fs THEN "NotADirectoryError"
                 ELSE IF Front(loc) \notin Dirs THEN "FileNotFoundError"
                 ELSE IF mode = "xb" /\ loc \in DOMAIN fs THEN "FileExistsError"
                 ELSE "None"
    IN  [fault |-> fault,
         fd |-> IF fault = "None"
                THEN [state |-> "open", path |-> loc, buf |-> <<>>]
                ELSE NoFd,
         fs |-> IF fault = "None"
                THEN [q \in DOMAIN fs \cup {loc} |-> IF q = loc THEN <<>> ELSE fs[q]]
                ELSE fs]

\* fd.write(chunk) of a buffered binary writer; a closed one raises ValueError
write(fd, chunk) ==
    IF fd.state = "open"
    THEN [fault |-> "None", fd |-> [fd EXCEPT !.buf = @ \o chunk]]
    ELSE [fault |-> "ValueError", fd |-> fd]

\* fd.close(): flushes the buffer to the file; closing twice does nothing
close(fd, fs) ==
    IF fd.state = "open"
    THEN [fd |-> [fd EXCEPT !.state = "closed", !.buf = <<>>],
          fs |-> [q \in DOMAIN fs \cup {fd.path} |->
                    IF q = fd.path
                    THEN (IF q \in DOMAIN fs THEN fs[q] ELSE <<>>) \o fd.buf
                    ELSE fs[q]]]
    ELSE [fd |-> fd, fs |-> fs]

\* truth value of self._fd: None is false, a file object, open or closed,
\* is true
Truthy(fd) == fd.state # "None"

\* ------------------------------------------------------------------------
\* The targets' handlers, as functions of the fields they read
\* ------------------------------------------------------------------------
Kinds == {"NullTarget", "ValueTarget", "FileTarget", "DirectoryTarget",
          "SHA256Target", "S3Target", "CSVTarget"}

\* BaseTarget._validate: verdict is what the validator does when it is
\* called with the chunk, "None" (returns) or "ValidationFault" (raises)
_validate(validator, verdict) ==
    IF validator THEN verdict ELSE "None"

\* ValueTarget.on_data_received that puts the chunk in front
ValueTarget_on_data_received_prepend(values, chunk) == <<chunk>> \o values

\* ValueTarget.on_data_received
ValueTarget_on_data_received(values, chunk) == Append(values, chunk)

\* ValueTarget.value
value(values) == Flatten(values)

\* SHA256Target.on_data_received that hashes each chunk with a new hash object
SHA256Target_on_data_received_restart(hash, chunk) == chunk

\* SHA256Target.on_data_received: the hash object, as the input it absorbed
SHA256Target_on_data_received(hash, chunk) == hash \o chunk

\* SHA256Target.value: the digest, as a function of the absorbed input
hexdigest(hash) == <<"sha256", hash>>

\* self._mode that is "wb" whatever allow_overwrite is
ModeOf_always_overwrite(allow_overwrite) == "wb"

\* FileTarget.__init__ / DirectoryTarget.__init__: self._mode
ModeOf(allow_overwrite) == IF allow_overwrite THEN "wb" ELSE "xb"

\* FileTarget.on_start
FileTarget_on_start(mode, fd, fs) ==
    LET o == open(filename, mode, fs)
    IN  [fault |-> o.fault,
         fd |-> IF o.fault = "None" THEN o.fd ELSE fd,
         fs |-> o.fs]

\* DirectoryTarget.on_start with the advertised name used as it is
final_component_unreduced(advertised_name) == advertised_name

\* DirectoryTarget.on_start: the reduced name
final_component(advertised_name) == name(resolve(Path(advertised_name)))

\* DirectoryTarget.on_start
DirectoryTarget_on_start(advertised_name, mode, fd, fs) ==
    IF advertised_name = None \/ advertised_name = <<>>
    THEN [fault |-> "None", multipart_filename |-> advertised_name,
          fd |-> fd, fs |-> fs]
    ELSE LET reduced == final_component(advertised_name)
             o == open(truediv(Path(directory_path), reduced), mode, fs)
         IN  [fault |-> o.fault, multipart_filename |-> reduced,
              fd |-> IF o.fault = "None" THEN o.fd ELSE fd,
              fs |-> o.fs]

\* on_data_received that writes without testing self._fd: None has no write
File_on_data_received_unguarded(fd, chunk) ==
    IF fd.state = "None" THEN [fault |-> "AttributeError", fd |-> fd]
    ELSE write(fd, chunk)

\* FileTarget.on_data_received, DirectoryTarget.on_data_received
File_on_data_received(fd, chunk) ==
    IF Truthy(fd) THEN write(fd, chunk) ELSE [fault |-> "None", fd |-> fd]

\* on_finish that leaves the file open
File_on_finish_no_close(fd, fs) == [fd |-> fd, fs |-> fs]

\* FileTarget.on_finish, and the close of DirectoryTarget.on_finish
File_on_finish(fd, fs) ==
    IF Truthy(fd) THEN close(fd, fs) ELSE [fd |-> fd, fs |-> fs]

\* CSVTarget.on_data_received with the previous partial line forgotten
combined_without_partial(partial, text) == text

\* CSVTarget.on_data_received: the previous partial line joined with the
\* decoded chunk
combined_text(partial, text) == partial \o text

\* CSVTarget.on_data_received that takes the previous partial line out of
\* the target before it decodes the chunk
CSVTarget_on_data_received_partial_taken(lines, partial, chunk) ==
    LET d == decode(chunk)
        combined == combined_text(partial, d.text)
        segs == splitlines(combined)
        n == Len(segs)
    IN  IF ~d.ok
        THEN [fault |-> "UnicodeDecodeError", lines |-> lines, partial |-> <<>>]
        ELSE IF n = 0
        THEN [fault |-> "IndexError", lines |-> lines, partial |-> <<>>]
        ELSE LET done == lines \o [i \in 1..(n - 1) |-> replaceLF(segs[i])]
             IN  IF endswithLF(segs[n])
                 THEN [fault |-> "None",
                       lines |-> Append(done, replaceLF(segs[n])),
                       partial |-> <<>>]
                 ELSE [fault |-> "None", lines |-> done, partial |-> segs[n]]

\* CSVTarget.on_data_received
CSVTarget_on_data_received(lines, partial, chunk) ==
    LET d == decode(chunk)
        combined == combined_text(partial, d.text)
        segs == splitlines(combined)
        n == Len(segs)
    IN  IF ~d.ok
        THEN [fault |-> "UnicodeDecodeError", lines |-> lines, partial |-> partial]
        ELSE IF n = 0
        THEN [fault |-> "IndexError", lines |-> lines, partial |-> partial]
        ELSE LET done == lines \o [i \in 1..(n - 1) |-> replaceLF(segs[i])]
             IN  IF endswithLF(segs[n])
                 THEN [fault |-> "None",
                       lines |-> Append(done, replaceLF(segs[n])),
                       partial |-> <<>>]
                 ELSE [fault |-> "None", lines |-> done, partial |-> segs[n]]

\* CSVTarget.pop_lines that ignores include_partial_line
pop_lines_without_partial(lines, partial, include_partial_line) ==
    [ret |-> lines, lines |-> <<>>, partial |-> partial]

\* CSVTarget.pop_lines that does not replace _lines by a new list
pop_lines_keeping_lines(lines, partial, include_partial_line) ==
    IF include_partial_line /\ partial # <<>>
    THEN [ret |-> Append(lines, partial), lines |-> Append(lines, partial),
          partial |-> <<>>]
    ELSE [ret |-> lines, lines |-> lines, partial |-> partial]

\* CSVTarget.pop_lines that clears the partial line on every call
pop_lines_dropping_partial(lines, partial, include_partial_line) ==
    IF include_partial_line /\ partial # <<>>
    THEN [ret |-> Append(lines, partial), lines |-> <<>>, partial |-> <<>>]
    ELSE [ret |-> lines, lines |-> <<>>, partial |-> <<>>]

\* CSVTarget.pop_lines
pop_lines(lines, partial, include_partial_line) ==
    IF include_partial_line /\ partial # <<>>
    THEN [ret |-> Append(lines, partial), lines |-> <<>>, partial |-> <<>>]
    ELSE [ret |-> lines, lines |-> <<>>, partial |-> partial]

\* CSVTarget.get_lines that works on _lines itself instead of a copy
get_lines_without_copy(lines, partial, include_partial_line) ==
    IF include_partial_line /\ partial # <<>>
    THEN [ret |-> Append(lines, partial), lines |-> Append(lines, partial),
          partial |-> partial]
    ELSE [ret |-> lines, lines |-> lines, partial |-> partial]

\* CSVTarget.get_lines
get_lines(lines, partial, include_partial_line) ==
    IF include_partial_line /\ partial # <<>>
    THEN [ret |-> Append(lines, partial), lines |-> lines, partial |-> partial]
    ELSE [ret |-> lines, lines |-> lines, partial |-> partial]

\* DirectoryTarget.on_finish that records only the segments with a file
DirectoryTarget_records_if_file(t) ==
    IF Truthy(t._fd)
    THEN [names |-> Append(t.multipart_filenames, t.multipart_filename),
          types |-> Append(t.multipart_content_types, t.multipart_content_type)]
    ELSE [names |-> t.multipart_filenames, types |-> t.multipart_content_types]

\* DirectoryTarget.on_finish: the two record lists after the appends
DirectoryTarget_records(t) ==
    [names |-> Append(t.multipart_filenames, t.multipart_filename),
     types |-> Append(t.multipart_content_types, t.multipart_content_type)]

\* S3Target.on_start: smart_open.open returns a writer; the object appears
\* in the store when the writer is closed
S3Target_on_start == [state |-> "open", path |-> _file_path, buf |-> <<>>]

\* S3Target.on_data_received.  What the transport's writer does with a write
\* after its close is the transport's: closed_write is "ValueError" or
\* "None" (the bytes are accepted and never committed).
S3Target_on_data_received(fd, chunk, closed_write) ==
    IF ~Truthy(fd) THEN [fault |-> "None", fd |-> fd]
    ELSE IF fd.state = "open" THEN write(fd, chunk)
    ELSE [fault |-> closed_write, fd |-> fd]

\* S3Target.on_finish: close() commits the buffered bytes as the object
S3Target_on_finish(fd, store) ==
    IF Truthy(fd) /\ fd.state = "open"
    THEN [fd |-> [fd EXCEPT !.state = "closed", !.buf = <<>>],
          store |-> [q \in {fd.path} |-> fd.buf]]
    ELSE [fd |-> fd, store |-> store]

\* ------------------------------------------------------------------------
\* State
\* ------------------------------------------------------------------------
VARIABLES
    self,       \* the target instance: its class (kind) and its fields
    args,       \* the arguments the instance was constructed with
    files,      \* the file system: location -> content of the file there
    objects,    \* the remote object store: location -> content
    pc,         \* the driver: "idle", or "active" between start and finish
    calls,      \* calls made on the instance so far
    bytesIn,    \* bytes handed to data_received so far
    compsIn,    \* path components of the names advertised so far
    nfinish,    \* finish() calls made so far
    prevRead,   \* the call made before the last one, if it was pop_lines
                \* or get_lines; "None" if it was another call
    lastOp,     \* the last call made
    lastArg,    \* its argument
    lastVerdict, \* what the validator did in it, "None" if it returned
    lastFault,  \* the exception the call raised, "None" if it returned
    lastRet,    \* what it returned (property reads, pop_lines, get_lines)
    received,   \* the bytes of the chunks handed to data_received
    accepted,   \* the bytes of the chunks whose data_received returned
    popped,     \* pop_lines was called
    drained,    \* what the pop_lines calls returned, joined in call order
    unpopped,   \* _lines and _previous_partial_line of a second CSVTarget
                \* that is handed the same chunks and never popped
    segment     \* the segment begun by the last start()

vars == <<self, args, files, objects, pc, calls, bytesIn, compsIn, nfinish,
          prevRead, lastOp, lastArg, lastVerdict, lastFault, lastRet, received,
          accepted, popped, drained, unpopped, segment>>

\* segment: type = the content type the driver advertised; reduced = the
\* advertised name, reduced to its final component unless absent or empty;
\* given = the advertised name as given if start() opened no file, reduced
\* to its final component if it opened one; traversal = the advertised name
\* is absolute or has a ".." component; existed = a file was at
\* the destination when start() was called; opened = start() returned with a
\* file or stream open; clean = no call since that start() raised; bytes =
\* the bytes of the chunks accepted since; finished = finish() was called
NoSegment == [started |-> FALSE, type |-> "None", reduced |-> None,
              given |-> None, traversal |-> FALSE,
              existed |-> FALSE, opened |-> FALSE, clean |-> FALSE,
              bytes |-> <<>>, finished |-> FALSE]

\* BaseTarget.__init__ and the subclasses' __init__
NewTarget(kind, validator, allow_overwrite) ==
    [kind |-> kind,
     multipart_filename |-> None,
     multipart_content_type |-> "None",
     _started |-> FALSE,
     _finished |-> FALSE,
     _validator |-> validator,
     _values |-> <<>>,
     _mode |-> ModeOf(allow_overwrite),
     _fd |-> NoFd,
     multipart_filenames |-> <<>>,
     multipart_content_types |-> <<>>,
     _hash |-> <<>>,
     _lines |-> <<>>,
     _previous_partial_line |-> <<>>]

NoFiles == [q \in {} |-> <<>>]
\* a file system in which "/u/f" exists, with content "a"
OneFile == [q \in {Location(filename)} |-> <<97>>]

WritesFiles(kind) == kind \in {"FileTarget", "DirectoryTarget"}

InitOf(kinds, validators) ==
    /\ \E kind \in kinds, validator \in validators, allow_overwrite \in BOOLEAN :
          /\ WritesFiles(kind) \/ allow_overwrite
          /\ self = NewTarget(kind, validator, allow_overwrite)
          /\ args = [validator |-> validator, allow_overwrite |-> allow_overwrite]
          /\ files \in (IF WritesFiles(kind) THEN {NoFiles, OneFile} ELSE {NoFiles})
    /\ objects = NoFiles
    /\ pc = "idle"
    /\ calls = 0
    /\ bytesIn = 0
    /\ compsIn = 0
    /\ nfinish = 0
    /\ prevRead = "None"
    /\ lastOp = "__init__"
    /\ lastArg = <<>>
    /\ lastVerdict = "None"
    /\ lastFault = "None"
    /\ lastRet = <<>>
    /\ received = <<>>
    /\ accepted = <<>>
    /\ popped = FALSE
    /\ drained = <<>>
    /\ unpopped = [lines |-> <<>>, partial |-> <<>>]
    /\ segment = NoSegment

\* ------------------------------------------------------------------------
\* The lifecycle calls
\* ------------------------------------------------------------------------
\* BaseTarget.start, with the on_start of the instance's class: the fault
\* raised, the instance and the file system afterwards
start(t, fs) ==
    LET t1 == [t EXCEPT !._started = TRUE]
    IN  CASE t.kind = "FileTarget" ->
               LET r == FileTarget_on_start(t._mode, t._fd, fs)
               IN  [fault |-> r.fault, t |-> [t1 EXCEPT !._fd = r.fd], fs |-> r.fs]
          [] t.kind = "DirectoryTarget" ->
               LET r == DirectoryTarget_on_start(t.multipart_filename, t._mode,
                                                 t._fd, fs)
               IN  [fault |-> r.fault,
                    t |-> [t1 EXCEPT !._fd = r.fd,
                                     !.multipart_filename = r.multipart_filename],
                    fs |-> r.fs]
          [] t.kind = "S3Target" ->
               [fault |-> "None", t |-> [t1 EXCEPT !._fd = S3Target_on_start],
                fs |-> fs]
          [] OTHER -> [fault |-> "None", t |-> t1, fs |-> fs]

\* on_data_received of the instance's class
on_data_received(t, chunk, closed_write) ==
    CASE t.kind = "NullTarget" -> [fault |-> "None", t |-> t]
      [] t.kind = "ValueTarget" ->
           [fault |-> "None",
            t |-> [t EXCEPT !._values = ValueTarget_on_data_received(@, chunk)]]
      [] t.kind \in {"FileTarget", "DirectoryTarget"} ->
           LET r == File_on_data_received(t._fd, chunk)
           IN  [fault |-> r.fault, t |-> [t EXCEPT !._fd = r.fd]]
      [] t.kind = "SHA256Target" ->
           [fault |-> "None",
            t |-> [t EXCEPT !._hash = SHA256Target_on_data_received(@, chunk)]]
      [] t.kind = "S3Target" ->
           LET r == S3Target_on_data_received(t._fd, chunk, closed_write)
           IN  [fault |-> r.fault, t |-> [t EXCEPT !._fd = r.fd]]
      [] t.kind = "CSVTarget" ->
           LET r == CSVTarget_on_data_received(t._lines, t._previous_partial_line,
                                               chunk)
           IN  [fault |-> r.fault,
                t |-> [t EXCEPT !._lines = r.lines,
                                !._previous_partial_line = r.partial]]

\* BaseTarget.data_received with the handler run before the validator
data_received_handler_first(t, chunk, verdict, closed_write) ==
    LET v == _validate(t._validator, verdict)
        r == on_data_received(t, chunk, closed_write)
    IN  IF v # "None" THEN [fault |-> v, t |-> r.t] ELSE r

\* BaseTarget.data_received
data_received(t, chunk, verdict, closed_write) ==
    LET v == _validate(t._validator, verdict)
    IN  IF v # "None" THEN [fault |-> v, t |-> t]
        ELSE on_data_received(t, chunk, closed_write)

\* BaseTarget.finish, with the on_finish of the instance's class
finish(t, fs, store) ==
    CASE t.kind = "FileTarget" ->
           LET r == File_on_finish(t._fd, fs)
           IN  [t |-> [t EXCEPT !._fd = r.fd, !._finished = TRUE],
                fs |-> r.fs, store |-> store]
      [] t.kind = "DirectoryTarget" ->
           LET r == File_on_finish(t._fd, fs)
               rec == DirectoryTarget_records(t)
           IN  [t |-> [t EXCEPT
                         !.multipart_filenames = rec.names,
                         !.multipart_content_types = rec.types,
                         !._fd = r.fd,
                         !._finished = TRUE],
                fs |-> r.fs, store |-> store]
      [] t.kind = "S3Target" ->
           LET r == S3Target_on_finish(t._fd, store)
           IN  [t |-> [t EXCEPT !._fd = r.fd, !._finished = TRUE],
                fs |-> fs, store |-> r.store]
      [] OTHER -> [t |-> [t EXCEPT !._finished = TRUE], fs |-> fs, store |-> store]

\* ------------------------------------------------------------------------
\* The driver's steps
\* ------------------------------------------------------------------------
\* where start() of a FileTarget, or of a DirectoryTarget given the reduced
\* name, opens its file; <<>> where it opens none
Destination(kind, reduced) ==
    IF kind = "FileTarget" THEN Location(filename)
    ELSE IF kind = "DirectoryTarget" /\ reduced \notin {None, <<>>}
    THEN Location(truediv(Path(directory_path), reduced))
    ELSE <<>>

Called(op, arg) ==
    /\ calls' = calls + 1
    /\ prevRead' = IF lastOp \in {"pop_lines", "get_lines"} THEN lastOp ELSE "None"
    /\ lastOp' = op
    /\ lastArg' = arg

\* target.multipart_filename = ...; target.multipart_content_type = ...;
\* target.start().  The driver starts a segment only when none is under way.
Start(advertised_name, content_type) ==
    /\ calls < MaxCalls
    /\ pc = "idle"
    /\ compsIn + NameSize(advertised_name) <= MaxComponents
    /\ LET t0 == [self EXCEPT !.multipart_filename = advertised_name,
                              !.multipart_content_type = content_type]
           r == start(t0, files)
           named == advertised_name \notin {None, <<>>}
           reduced == IF named THEN final_component(advertised_name)
                      ELSE advertised_name
           opened == r.fault = "None" /\ r.t._fd.state = "open"
       IN  /\ self' = r.t
           /\ files' = r.fs
           /\ lastFault' = r.fault
           /\ segment' =
                [started |-> TRUE,
                 type |-> content_type,
                 reduced |-> reduced,
                 given |-> IF opened /\ named THEN reduced ELSE advertised_name,
                 traversal |-> named /\ LET p == Path(advertised_name)
                                        IN  \/ p.abs
                                            \/ \E i \in 1..Len(p.parts) :
                                                  p.parts[i] = <<".", ".">>,
                 existed |-> Destination(self.kind, reduced) \in DOMAIN files,
                 opened |-> opened,
                 clean |-> r.fault = "None",
                 bytes |-> <<>>,
                 finished |-> FALSE]
    /\ pc' = "active"
    /\ Called("start", <<>>)
    /\ lastVerdict' = "None"
    /\ lastRet' = <<>>
    /\ compsIn' = compsIn + NameSize(advertised_name)
    /\ UNCHANGED <<args, objects, bytesIn, nfinish, received, accepted, popped,
                   drained, unpopped>>

\* target.data_received(chunk)
Receive(chunk, verdict, closed_write) ==
    /\ calls < MaxCalls
    /\ bytesIn + Len(chunk) <= MaxBytes
    /\ LET r == data_received(self, chunk, verdict, closed_write)
       IN  /\ self' = r.t
           /\ lastFault' = r.fault
           /\ accepted' = IF r.fault = "None" THEN accepted \o chunk ELSE accepted
           /\ unpopped' =
                IF self.kind = "CSVTarget"
                THEN LET u == data_received(
                                [self EXCEPT
                                   !._lines = unpopped.lines,
                                   !._previous_partial_line = unpopped.partial],
                                chunk, verdict, closed_write).t
                     IN  [lines |-> u._lines, partial |-> u._previous_partial_line]
                ELSE unpopped
           /\ segment' = [segment EXCEPT
                            !.clean = IF segment.finished THEN @
                                      ELSE @ /\ r.fault = "None",
                            !.bytes = IF r.fault = "None" THEN @ \o chunk ELSE @]
    /\ bytesIn' = bytesIn + Len(chunk)
    /\ received' = received \o chunk
    /\ Called("data_received", chunk)
    /\ lastVerdict' = IF self._validator THEN verdict ELSE "None"
    /\ lastRet' = <<>>
    /\ UNCHANGED <<args, files, objects, pc, compsIn, nfinish, popped, drained>>

\* target.finish()
Finish ==
    /\ calls < MaxCalls
    /\ LET r == finish(self, files, objects)
       IN  /\ self' = r.t
           /\ files' = r.fs
           /\ objects' = r.store
    /\ pc' = "idle"
    /\ nfinish' = nfinish + 1
    /\ segment' = [segment EXCEPT !.finished = TRUE]
    /\ Called("finish", <<>>)
    /\ lastVerdict' = "None"
    /\ lastFault' = "None"
    /\ lastRet' = <<>>
    /\ UNCHANGED <<args, bytesIn, compsIn, received, accepted, popped, drained,
                   unpopped>>

\* target.value of a ValueTarget or SHA256Target
ReadValue ==
    /\ calls < MaxCalls
    /\ self.kind \in {"ValueTarget", "SHA256Target"}
    /\ lastRet' = IF self.kind = "ValueTarget" THEN value(self._values)
                  ELSE hexdigest(self._hash)
    /\ Called("value", <<>>)
    /\ lastVerdict' = "None"
    /\ lastFault' = "None"
    /\ UNCHANGED <<args, self, files, objects, pc, bytesIn, compsIn, nfinish,
                   received, accepted, popped, drained, unpopped, segment>>

\* target.pop_lines(include_partial_line)
PopLines(include_partial_line) ==
    /\ calls < MaxCalls
    /\ self.kind = "CSVTarget"
    /\ LET r == pop_lines(self._lines, self._previous_partial_line,
                          include_partial_line)
       IN  /\ self' = [self EXCEPT !._lines = r.lines,
                                   !._previous_partial_line = r.partial]
           /\ lastRet' = r.ret
           /\ drained' = drained \o r.ret
    /\ popped' = TRUE
    /\ Called("pop_lines", <<include_partial_line>>)
    /\ lastVerdict' = "None"
    /\ lastFault' = "None"
    /\ UNCHANGED <<args, files, objects, pc, bytesIn, compsIn, nfinish,
                   received, accepted, unpopped, segment>>

\* target.get_lines(include_partial_line)
GetLines(include_partial_line) ==
    /\ calls < MaxCalls
    /\ self.kind = "CSVTarget"
    /\ LET r == get_lines(self._lines, self._previous_partial_line,
                          include_partial_line)
       IN  /\ self' = [self EXCEPT !._lines = r.lines,
                                   !._previous_partial_line = r.partial]
           /\ lastRet' = r.ret
    /\ Called("get_lines", <<include_partial_line>>)
    /\ lastVerdict' = "None"
    /\ lastFault' = "None"
    /\ UNCHANGED <<args, files, objects, pc, bytesIn, compsIn, nfinish,
                   received, accepted, popped, drained, unpopped, segment>>

Verdicts == {"None", "ValidationFault"}
ClosedWrites == {"None", "ValueError"}

\* ------------------------------------------------------------------------
\* The driver's inputs
\* ------------------------------------------------------------------------
\* the UTF-8 encodings of the characters LF, CR, "a" and U+00E9
EncodedChars == {<<LF>>, <<13>>, <<97>>, <<195, 169>>}

\* chunks of at most n bytes cut at character boundaries
TextChunks(n) ==
    {c \in {Flatten(cs) : cs \in SeqsUpTo(EncodedChars, n)} : Len(c) <= n}

\* chunks of at most n bytes of binary data
DataChunks(n) == SeqsUpTo({LF, 97}, n)

\* chunks of at most one byte
ShortChunks(n) == {c \in {<<>>, <<97>>} : Len(c) <= n}

\* advertised names: absent, "", "f", "../f", "/"
FewNames == {None, <<>>, <<"f">>, <<".", ".", "/", "f">>, <<"/">>}

\* absent, or any name of at most n components
NamesWithin == [n \in 0..MaxComponents |-> Names(n) \cup {None}]

StartWith(names, types) == \E n \in names, c \in types : Start(n, c)

ReceiveWith(chunks) ==
    \E chunk \in chunks,
       verdict \in (IF self._validator THEN Verdicts ELSE {"None"}),
       closed_write \in (IF self.kind = "S3Target" /\ self._fd.state = "closed"
                         THEN ClosedWrites ELSE {"None"}) :
        Receive(chunk, verdict, closed_write)

DoPopLines == \E b \in BOOLEAN : PopLines(b)
DoGetLines == \E b \in BOOLEAN : GetLines(b)

\* ------------------------------------------------------------------------
\* Specifications
\* ------------------------------------------------------------------------
\* every class of target, with a validator, on few inputs
Init == InitOf(Kinds, {TRUE})
Next ==
    \/ StartWith(IF self.kind = "DirectoryTarget" THEN FewNames ELSE {None},
                 {"None"})
    \/ ReceiveWith(ShortChunks(MaxBytes - bytesIn))
    \/ Finish
    \/ ReadValue
    \/ DoPopLines
    \/ DoGetLines
Spec == Init /\ [][Next]_vars

\* a CSVTarget without validator, fed text
InitCSV == InitOf({"CSVTarget"}, {FALSE})
NextCSV ==
    \/ StartWith({None}, {"None"})
    \/ ReceiveWith(TextChunks(MaxBytes - bytesIn))
    \/ Finish
    \/ DoPopLines
    \/ DoGetLines
SpecCSV == InitCSV /\ [][NextCSV]_vars

\* a ValueTarget, with or without validator
InitValue == InitOf({"ValueTarget"}, BOOLEAN)
NextValue ==
    \/ StartWith({None}, {"None"})
    \/ ReceiveWith(DataChunks(MaxBytes - bytesIn))
    \/ Finish
    \/ ReadValue
SpecValue == InitValue /\ [][NextValue]_vars

\* the targets that hold a handle, without validator
InitWriters == InitOf({"FileTarget", "DirectoryTarget", "S3Target"}, {FALSE})
NextWriters ==
    \/ StartWith(IF self.kind = "DirectoryTarget" THEN FewNames ELSE {None},
                 IF self.kind = "DirectoryTarget" THEN ContentTypes ELSE {"None"})
    \/ ReceiveWith(IF self.kind = "DirectoryTarget"
                   THEN ShortChunks(MaxBytes - bytesIn)
                   ELSE DataChunks(MaxBytes - bytesIn))
    \/ Finish
SpecWriters == InitWriters /\ [][NextWriters]_vars

\* a DirectoryTarget without validator, on every advertised name
InitNames == InitOf({"DirectoryTarget"}, {FALSE})
NextNames ==
    \/ StartWith(NamesWithin[MaxComponents - compsIn], {"None"})
    \/ ReceiveWith(ShortChunks(MaxBytes - bytesIn))
    \/ Finish
SpecNames == InitNames /\ [][NextNames]_vars

\* a SHA256Target, with or without validator
InitHash == InitOf({"SHA256Target"}, BOOLEAN)
NextHash ==
    \/ StartWith({None}, {"None"})
    \/ ReceiveWith(DataChunks(MaxBytes - bytesIn))
    \/ Finish
    \/ ReadValue
SpecHash == InitHash /\ [][NextHash]_vars

\* a CSVTarget without validator, fed chunks of bytes cut anywhere, and
\* drained with pop_lines(False)
InitBytes == InitOf({"CSVTarget"}, {FALSE})
NextBytes ==
    \/ StartWith({None}, {"None"})
    \/ ReceiveWith(Chunks(MaxBytes - bytesIn))
    \/ PopLines(FALSE)
SpecBytes == InitBytes /\ [][NextBytes]_vars

\* ------------------------------------------------------------------------
\* Claims
\* ------------------------------------------------------------------------
IsCSV == self.kind = "CSVTarget"

\* a call of op was just made
Did(op) == lastOp' = op /\ calls' = calls + 1

\* number of LF characters in a text
RECURSIVE CountLF(_)
CountLF(text) ==
    IF text = <<>> THEN 0
    ELSE (IF Head(text) = LF THEN 1 ELSE 0) + CountLF(Tail(text))

\* C1: Line Splitter chunking independence.  However a text is cut into
\* chunks at character boundaries, once the chunks were received in order
\* with no pop_lines in between, _lines and _previous_partial_line are what
\* one data_received of the whole text on a new CSVTarget leaves.  (accepted
\* is the concatenation of the chunks received; a zero-length chunk that was
\* accepted adds nothing to it.)
C1_ChunkingIndependence ==
    (IsCSV /\ ~popped /\ accepted # <<>>) =>
        LET whole == CSVTarget_on_data_received(<<>>, <<>>, accepted)
        IN  /\ whole.fault = "None"
            /\ self._lines = whole.lines
            /\ self._previous_partial_line = whole.partial

\* C1 witness: "a" then "a\n" were received and the line "aa" is there once,
\* whole
C1_Witness ==
    /\ IsCSV /\ ~popped
    /\ lastOp = "data_received" /\ lastArg = <<97, LF>> /\ lastFault = "None"
    /\ accepted = <<97, 97, LF>>
    /\ self._lines = << <<97, 97>> >>
    /\ self._previous_partial_line = <<>>

\* C2: pop_lines(False) returns _lines, empties _lines and leaves
\* _previous_partial_line; pop_lines(True) returns _lines followed by
\* _previous_partial_line when that is not empty, and leaves both empty.
C2_PopLinesResult ==
    [][Did("pop_lines") =>
          IF lastArg' = <<FALSE>>
          THEN /\ lastRet' = self._lines
               /\ self'._lines = <<>>
               /\ self'._previous_partial_line = self._previous_partial_line
          ELSE /\ lastRet' = self._lines \o
                     (IF self._previous_partial_line # <<>>
                      THEN <<self._previous_partial_line>> ELSE <<>>)
               /\ self'._lines = <<>>
               /\ self'._previous_partial_line = <<>>]_vars

\* C2 witness: after "a\na", pop_lines(True) returned the line "a" and the
\* partial line "a", and nothing is left
C2_Witness ==
    /\ IsCSV
    /\ lastOp = "pop_lines" /\ lastArg = <<TRUE>>
    /\ accepted = <<97, LF, 97>>
    /\ lastRet = << <<97>>, <<97>> >>
    /\ self._lines = <<>>
    /\ self._previous_partial_line = <<>>

\* C3 (as claimed): only LF ends a line, CR never does: with no pop_lines so
\* far, _lines has as many lines as LF characters were consumed.
C3_OnlyNewlineEndsLine ==
    (IsCSV /\ ~popped) =>
        Len(self._lines) = CountLF(decode(accepted).text)

\* C4 (as claimed): on a CSVTarget without validator, no call made from
\* start() on raises, whatever the decodable chunks, zero-length ones
\* included.
C4_NoCallRaises ==
    (IsCSV /\ ~self._validator /\ segment.started
        /\ (lastOp = "data_received" => decode(lastArg).ok)) =>
        lastFault = "None"

\* C5: when the validator raises on a chunk, data_received raises that
\* fault and the target, the file system and the object store are as they
\* were before the call.
C5_ValidationGatesHandler ==
    [][(Did("data_received") /\ lastVerdict' = "ValidationFault") =>
          /\ lastFault' = "ValidationFault"
          /\ self' = self
          /\ files' = files
          /\ objects' = objects]_vars

\* C5 witness: a FileTarget with its file open and bytes written was handed
\* a chunk of one byte that the validator rejected
C5_Witness ==
    /\ self.kind = "FileTarget"
    /\ self._fd.state = "open" /\ self._fd.buf # <<>>
    /\ lastOp = "data_received" /\ lastArg # <<>>
    /\ lastVerdict = "ValidationFault"
    /\ lastFault = "ValidationFault"

IsDirectory == self.kind = "DirectoryTarget"
IsFile == self.kind = "FileTarget"

IsPrefix(s, t) == Len(s) <= Len(t) /\ SubSeq(t, 1, Len(s)) = s

\* a string that is one ordinary path component: not empty, no separator,
\* neither "." nor ".."
BareName(str) ==
    /\ str # <<>>
    /\ str \notin {None, <<".">>, <<".", ".">>}
    /\ \A i \in 1..Len(str) : str[i] # "/"

\* a location that is a direct child of directory_path
InsideBase(loc) ==
    /\ Len(loc) = Len(Path(directory_path).parts) + 1
    /\ Front(loc) = Path(directory_path).parts
    /\ BareName(Last(loc))

\* C6: Directory Writer path-traversal safety.  Whatever names were
\* advertised, every file of the file system and the file the target holds
\* are direct children of directory_path, and the name start() opened a file
\* under is one ordinary path component.
C6_PathTraversalSafe ==
    IsDirectory =>
        /\ \A loc \in DOMAIN files : InsideBase(loc)
        /\ (Truthy(self._fd) => InsideBase(self._fd.path))
        /\ (segment.opened =>
               /\ BareName(self.multipart_filename)
               /\ self._fd.path =
                     Append(Path(directory_path).parts, self.multipart_filename))

\* C6 witness: a name that is absolute or has a ".." component was
\* advertised, and start() opened "/u/f"
C6_Witness ==
    /\ IsDirectory
    /\ lastOp = "start" /\ lastFault = "None"
    /\ segment.traversal /\ segment.opened
    /\ self._fd.state = "open"
    /\ self._fd.path = << <<"u">>, <<"f">> >>
    /\ self.multipart_filename = <<"f">>

\* C7: the value of a ValueTarget is the concatenation, in call order, of
\* the chunks whose data_received returned; reading it, before finish() too,
\* returns that and changes nothing.
C7_AccumulatorValue ==
    /\ []((self.kind = "ValueTarget") =>
             /\ value(self._values) = accepted
             /\ (lastOp = "value" => lastRet = accepted))
    /\ [][Did("value") =>
             /\ self' = self
             /\ lastRet' = value(self._values)]_vars

\* C7 witness: before finish(), with "a" and "\n" accepted and a third
\* chunk rejected by the validator, the value read is "a\n"
C7_Witness ==
    /\ self.kind = "ValueTarget"
    /\ ~self._finished
    /\ lastOp = "value"
    /\ lastRet = <<97, LF>>
    /\ Len(self._values) = 2
    /\ bytesIn = 3

\* C8: File Writer exclusive create.  On a FileTarget made with
\* allow_overwrite=False, start() on an existing file raises FileExistsError,
\* and neither that start() nor any later call on the target changes the
\* file system; made with allow_overwrite=True, start() on an existing file
\* returns, and after finish() the file holds the chunks received since that
\* start().
C8_ExclusiveCreate ==
    /\ [][(IsFile /\ Did("start") /\ Location(filename) \in DOMAIN files) =>
             IF ~args.allow_overwrite
             THEN lastFault' = "FileExistsError" /\ files' = files
             ELSE lastFault' = "None"]_vars
    /\ [][(IsFile /\ ~args.allow_overwrite /\ segment.existed) =>
             files' = files]_vars
    /\ []((IsFile /\ args.allow_overwrite /\ segment.existed
              /\ segment.finished) =>
             files[Location(filename)] = segment.bytes)

\* C8 witness: start() of a FileTarget made with allow_overwrite=False
\* failed on the existing file "/u/f", a chunk was then received and finish()
\* called, and the file still holds "a"
C8_Witness ==
    /\ IsFile /\ ~args.allow_overwrite
    /\ segment.existed
    /\ lastOp = "finish"
    /\ accepted # <<>>
    /\ files[Location(filename)] = <<97>>

Writers == {"FileTarget", "DirectoryTarget", "S3Target"}

\* C9: Resource release on finish.  After start(), any data_received calls
\* and finish(), none of which raised, the target is marked finished and holds
\* no open handle: the handle start() opened is closed.
C9_ReleasedOnFinish ==
    (self.kind \in Writers /\ segment.started /\ segment.clean
        /\ segment.finished) =>
        /\ self._finished
        /\ self._fd.state # "open"
        /\ (segment.opened => self._fd.state = "closed")

\* C9 witness: a FileTarget was started and finished with no data_received
\* call in between, and its file is closed
C9_Witness ==
    /\ IsFile
    /\ lastOp = "finish" /\ calls = 2 /\ bytesIn = 0
    /\ segment.started /\ segment.opened /\ segment.clean
    /\ self._fd.state = "closed"

\* the records of a DirectoryTarget: one per finish() call, never changed
DirectoryRecordsKept ==
    /\ [](IsDirectory =>
             /\ Len(self.multipart_filenames) = nfinish
             /\ Len(self.multipart_content_types) = nfinish)
    /\ [][IsDirectory =>
             /\ IsPrefix(self.multipart_filenames, self'.multipart_filenames)
             /\ IsPrefix(self.multipart_content_types,
                         self'.multipart_content_types)]_vars

\* C10 (as claimed): the finish() that ends a segment records the content
\* type and the name, reduced to its final component when start() opened a
\* file and as advertised when it opened none; one record per finish(), none
\* ever changed.
C10_RecordsAsClaimed ==
    /\ DirectoryRecordsKept
    /\ [][(IsDirectory /\ Did("finish") /\ pc = "active") =>
             /\ Last(self'.multipart_filenames) = segment.given
             /\ Last(self'.multipart_content_types) = segment.type]_vars

\* C10 (amended): the finish() that ends a segment records the content type
\* and the name, as advertised when it was absent or empty and reduced to its
\* final component otherwise, whether start() opened a file or failed to; one
\* record per finish(), none ever changed.
C10_Records ==
    /\ DirectoryRecordsKept
    /\ [][(IsDirectory /\ Did("finish") /\ pc = "active") =>
             /\ Last(self'.multipart_filenames) = segment.reduced
             /\ Last(self'.multipart_content_types) = segment.type]_vars

\* C10 witness: "../f" was advertised, start() opened no file, and finish()
\* recorded "f"
C10_Witness ==
    /\ IsDirectory
    /\ lastOp = "finish"
    /\ ~segment.opened
    /\ segment.given = <<".", ".", "/", "f">>
    /\ Last(self.multipart_filenames) = <<"f">>
    /\ Last(self.multipart_content_types) = "text/csv"

\* every line followed by one LF, joined
RECURSIVE JoinLines(_)
JoinLines(lines) ==
    IF lines = <<>> THEN <<>>
    ELSE Append(Head(lines), LF) \o JoinLines(Tail(lines))

\* C11 (as claimed): Line Buffer reconstruction.  With no pop_lines so far,
\* the lines of _lines, each followed by one LF, followed by
\* _previous_partial_line, are the decoded text of the chunks consumed so
\* far, for texts of "a", U+00E9, LF and CR.
C11_Reconstruction ==
    (IsCSV /\ ~popped) =>
        JoinLines(self._lines) \o self._previous_partial_line
            = decode(accepted).text

\* a pop_lines call was just made right after another pop_lines call
SecondPop == lastOp = "pop_lines" /\ Did("pop_lines")

\* C12 (as claimed): of two pop_lines calls in a row, with any values of
\* include_partial_line, the second returns the empty list.
C12_SecondPopEmpty ==
    [][SecondPop => lastRet' = <<>>]_vars

\* C12 (amended): of two pop_lines calls in a row, the second returns the
\* empty list, unless the first was made with include_partial_line=False and
\* the second with include_partial_line=True while _previous_partial_line is
\* not empty: the second then returns the list of just that partial line.
C12_SecondPopLines ==
    [][SecondPop =>
          lastRet' = IF /\ lastArg = <<FALSE>> /\ lastArg' = <<TRUE>>
                        /\ self._previous_partial_line # <<>>
                     THEN <<self._previous_partial_line>>
                     ELSE <<>>]_vars

\* C12 witness: after "a\n", a first pop_lines returned the line "a" and a
\* second one, made right after it, returned the empty list
C12_Witness ==
    /\ IsCSV
    /\ prevRead = "pop_lines" /\ lastOp = "pop_lines"
    /\ accepted = <<97, LF>>
    /\ drained = << <<97>> >>
    /\ lastRet = <<>>

\* C13: get_lines is read-only.  A get_lines call leaves the target as it
\* was and returns the list pop_lines would return from the same state with
\* the same include_partial_line; made right after a get_lines call with the
\* same include_partial_line, it returns the same list again.
C13_GetLinesReadOnly ==
    [][Did("get_lines") =>
          /\ self' = self
          /\ lastRet' = pop_lines(self._lines, self._previous_partial_line,
                                  lastArg'[1]).ret
          /\ (lastOp = "get_lines" /\ lastArg = lastArg' => lastRet' = lastRet)]_vars

\* C13 witness: after "a\na", get_lines(True) was called twice in a row and
\* returned the line "a" and the partial line "a"; both are still there
C13_Witness ==
    /\ IsCSV /\ ~popped
    /\ prevRead = "get_lines" /\ lastOp = "get_lines" /\ lastArg = <<TRUE>>
    /\ accepted = <<97, LF, 97>>
    /\ lastRet = << <<97>>, <<97>> >>
    /\ self._lines = << <<97>> >>
    /\ self._previous_partial_line = <<97>>

\* C14 (as claimed): Line Splitter at any chunk boundary.  When the bytes
\* handed over so far are a valid encoded text, however they were cut into
\* chunks, inside a multi-byte character too, the data_received of a chunk
\* that is not empty raised nothing, and with no pop_lines so far _lines and
\* _previous_partial_line are what one data_received of all the bytes on a
\* new CSVTarget leaves.
C14_AnyChunking ==
    (IsCSV /\ ~popped /\ received # <<>> /\ decode(received).ok) =>
        LET whole == CSVTarget_on_data_received(<<>>, <<>>, received)
        IN  /\ (lastOp = "data_received" /\ lastArg # <<>>) => lastFault = "None"
            /\ self._lines = whole.lines
            /\ self._previous_partial_line = whole.partial

\* C18: a decode failure is atomic.  A data_received call whose chunk cannot
\* be decoded as UTF-8 raises UnicodeDecodeError and leaves the target, _lines
\* and _previous_partial_line included, as it was before the call.
C18_DecodeFailureAtomic ==
    [][(IsCSV /\ Did("data_received") /\ ~decode(lastArg').ok) =>
          /\ lastFault' = "UnicodeDecodeError"
          /\ self' = self]_vars

\* C18 witness: after "\na", with the empty line completed and the partial
\* line "a" pending, the chunk 0xA9 was handed over and refused, and both are
\* still there
C18_Witness ==
    /\ IsCSV
    /\ lastOp = "data_received" /\ lastArg = <<169>>
    /\ lastFault = "UnicodeDecodeError"
    /\ accepted = <<LF, 97>>
    /\ self._lines = << <<>> >>
    /\ self._previous_partial_line = <<97>>

IsHash == self.kind = "SHA256Target"

\* C15: the value of a SHA256Target is the digest of the concatenation, in
\* call order, of the chunks whose data_received returned, wherever the chunk
\* boundaries fell: the digest of the empty input when there was no chunk or
\* only zero-length ones.  Reading it returns that and changes nothing.
C15_HashOfConcatenation ==
    /\ [](IsHash =>
             /\ hexdigest(self._hash) = hexdigest(accepted)
             /\ (lastOp = "value" => lastRet = hexdigest(accepted)))
    /\ [][(IsHash /\ Did("value")) =>
             /\ self' = self
             /\ lastRet' = hexdigest(self._hash)]_vars

\* C15 witness: before finish(), with "a" and "\n" accepted and a third byte
\* rejected by the validator, the value read is the digest of "a\n"
C15_Witness ==
    /\ IsHash
    /\ ~self._finished
    /\ lastOp = "value"
    /\ lastRet = hexdigest(<<97, LF>>)
    /\ accepted = <<97, LF>>
    /\ bytesIn = 3

\* the segment under way was advertised without a name, or with the empty one
UnnamedSegment ==
    IsDirectory /\ pc = "active" /\ segment.given \in {None, <<>>}

\* C16 (as claimed): in a segment of a DirectoryTarget whose advertised name
\* is absent or empty, also after an earlier segment on the same instance
\* opened and closed a file, start() opens nothing and raises nothing, the
\* target holds no open file, and each data_received raises nothing and
\* changes no file.
C16_UnnamedSegmentWritesNothing ==
    /\ [](UnnamedSegment =>
             /\ ~segment.opened
             /\ self._fd.state # "open"
             /\ (lastOp = "start" => lastFault = "None"))
    /\ [][(UnnamedSegment /\ Did("data_received")) =>
             /\ lastFault' = "None"
             /\ files' = files]_vars

\* a data_received or finish call was just made
DidReceiveOrFinish == Did("data_received") \/ Did("finish")

\* C17: on a FileTarget, DirectoryTarget or S3Target on which start() was
\* never called, a data_received or finish call raises nothing, changes no
\* file and no remote object, and leaves _fd None.
C17_NoHandleNoWrite ==
    [][(self.kind \in Writers /\ ~self._started /\ DidReceiveOrFinish) =>
          /\ lastFault' = "None"
          /\ files' = files
          /\ objects' = objects
          /\ self._fd = NoFd
          /\ self'._fd = NoFd]_vars

\* C17 witness: a FileTarget that was never started was handed a chunk that
\* is not empty and then finished; it holds no file, and the file "/u/f"
\* still holds "a"
C17_Witness ==
    /\ IsFile /\ ~self._started
    /\ lastOp = "finish" /\ calls = 2
    /\ accepted # <<>>
    /\ self._fd = NoFd
    /\ files = OneFile
    /\ objects = NoFiles

\* C19: draining loses and duplicates nothing.  Whatever the chunks and
\* wherever pop_lines(False) calls fall among the data_received calls, what
\* the pop_lines calls returned, joined in call order and followed by the
\* _lines left, is the _lines of a CSVTarget that was handed the same chunks
\* and never popped, and _previous_partial_line is the same on both.
C19_DrainLosesNothing ==
    IsCSV =>
        /\ drained \o self._lines = unpopped.lines
        /\ self._previous_partial_line = unpopped.partial

\* C19 witness: "a" was received, pop_lines(False) returned nothing and left
\* the partial line, and "\n" received right after it completed the line "a"
C19_Witness ==
    /\ IsCSV /\ popped
    /\ prevRead = "pop_lines"
    /\ lastOp = "data_received" /\ lastArg = <<LF>> /\ lastFault = "None"
    /\ accepted = <<97, LF>>
    /\ drained = <<>>
    /\ self._lines = << <<97>> >>
    /\ unpopped.lines = << <<97>> >>

====
